---- MODULE Spec2Model ----
(***************************************************************************)
(* A model of the video333 recording coordinator.  The repository holds   *)
(* two implementations of the same server:                                *)
(*   - src/server.js, class VideoMasterServer (variant "local"); its      *)
(*     definitions carry the prefix VMS_;                                 *)
(*   - src/unnamed/part_000, the module-level functions around            *)
(*     SERVER_STATE (variant "cloud"); its definitions keep the bare      *)
(*     function names.                                                    *)
(* The variable `variant` is chosen once, in Init, and selects which of   *)
(* the two programs runs.  Every async handler is cut at its awaits: one  *)
(* action per synchronous stretch, with the position kept in tasks[t].pc. *)
(***************************************************************************)
EXTENDS Integers, Sequences, FiniteSets, TLC

VARIABLES
    variant,              \* "local" (src/server.js) or "cloud" (src/unnamed/part_000)
    obsConnected,         \* this.obsConnected / SERVER_STATE.obsConnected
    isRecording,          \* this.isRecording                       (local)
    currentBlockIndex,    \* this.currentBlockIndex                 (local)
    currentRecordingFile, \* this.currentRecordingFile              (local)
    lastRecordingPath,    \* this.lastRecordingPath                 (local)
    currentSession,       \* SERVER_STATE.currentSession            (cloud)
    obsActive,            \* the recording engine is recording
    obsPath,              \* the file the engine writes (or wrote last)
    obsBlock,             \* history: the blockIndex of the start command that
                          \* caused the engine's recording; -1 for a test
    obsQueue,             \* RecordStateChanged notifications not yet delivered
    fs,                   \* the output directory: file name -> file or NoFile
    now,                  \* Date.now() / modification times, a logical clock
    tasks,                \* the handler invocations in flight
    log,                  \* every message sent to clients, in order
    unlinks,              \* fs.unlink calls of the manifest that have not completed
    ncmds,                \* recording commands received so far
    nmerges,              \* merge_videos commands received so far
    nconn,                \* connection events so far
    clients,              \* this.clients / wss.clients: the attached listeners
    readyState,           \* ws.readyState of every client channel
    uncaught              \* an exception has escaped a handler: the process has ended

vars == <<variant, obsConnected, isRecording, currentBlockIndex,
          currentRecordingFile, lastRecordingPath, currentSession,
          obsActive, obsPath, obsBlock, obsQueue, fs, now, tasks, log, unlinks, ncmds,
          nmerges, nconn,
          clients, readyState, uncaught>>

localVars == <<isRecording, currentBlockIndex, currentRecordingFile, lastRecordingPath>>
obsVars   == <<obsActive, obsPath, obsBlock, obsQueue>>
hubVars   == <<clients, readyState, uncaught>>

----------------------------------------------------------------------------
(* Bounds of the model.                                                    *)

MaxCmds == 3
MaxMerges == 2
MaxConn == 2
MaxTasks == 2
MaxBlockIndex == 1
MaxBlocks == 2
MaxClients == 2
MaxMalformed == 1

TaskIds == 1..MaxTasks
BlockIndexes == 0..MaxBlockIndex
\* The client channels (ws) the server can be given.
Ws == 1..MaxClients

----------------------------------------------------------------------------
(* Values.                                                                 *)

Null == "null"
NoFile == [data |-> <<>>, mtime |-> -1]
NoSession == [blockIndex |-> -1, filename |-> <<>>, startTime |-> -1]

\* The names the recording engine gives its files, in the order it uses them.
SegNames == <<"a.mp4", "b.mp4", "c.mp4">>
SegSet == {SegNames[i] : i \in DOMAIN SegNames}
ProjectNames == {"p", "a"}
Mp4 == ".mp4"
ListFile == "filelist.txt"
FileNames == SegSet \cup {pn \o Mp4 : pn \in ProjectNames}
                    \cup {pn \o "_alt" \o Mp4 : pn \in ProjectNames}
                    \cup {ListFile}

\* The text '[otklonen]' ("rejected") that marks a rejected block.
RejectedMarker == "[rejected]"

\* settings.outputPath / SERVER_STATE.outputDir, as a path of components.
outputPath == <<"videos">>

----------------------------------------------------------------------------
(* Messages to clients.  An error text is a sequence of fragments, so that *)
(* a text built from another (`prefix: ${error.message}`) contains it.     *)

\* `sent` counts, for every client, the client.send calls made with the message.
BaseMsg == [type |-> "none", to |-> "all", connected |-> FALSE, blockIndex |-> -1,
            filename |-> Null, fullPath |-> <<>>, fileExists |-> FALSE,
            message |-> <<>>, method |-> Null, outputFile |-> <<>>,
            fileSize |-> 0, blocksCount |-> 0, sent |-> [c \in Ws |-> 0]]

ErrorMsg(to, text) == [BaseMsg EXCEPT !.type = "error", !.to = to, !.message = text]

\* The texts of the errors the two programs raise.
E_OBSNotConnected == "OBS not connected"           \* server.js:292, 338
E_OBSNePodklyuchen == "OBS ne podklyuchen"         \* part_000:87, 142
E_AlreadyActive == "Zapis uzhe aktivna v OBS"      \* part_000:93
E_NoSession == "Net aktivnoy sessii zapisi"        \* part_000:146
E_NoRecordedFile == "Ne nayden zapisannyy fayl"    \* part_000:169
E_TypeError == "TypeError"                         \* a property read of null
E_OBSRequest == "OBS request failed"               \* a rejected obs.call
P_StartError == "Oshibka nachala zapisi:"          \* part_000:132
P_StopError == "Oshibka ostanovki zapisi:"         \* part_000:195

Contains(text, fragment) == \E i \in DOMAIN text : text[i] = fragment

----------------------------------------------------------------------------
(* Handler invocations.                                                    *)

NoTask == [kind |-> "none", pc |-> "none", blockIndex |-> -1, session |-> NoSession,
           file |-> Null, projectName |-> "", validBlocks |-> <<>>,
           manifest |-> <<>>, inputs |-> <<>>, labels |-> <<>>, read |-> <<>>,
           error |-> <<>>,
           \* history: the recorded blockIndex when the command arrived, and,
           \* if no other handler was running then, the number of commands
           \* received up to and including it
           before |-> -1, at |-> 0,
           \* history: the engine's notification of the stop the handler asked for
           event |-> <<>>,
           \* history: the session there was when the stop command arrived
           held |-> NoSession]

Free(t) == tasks[t].kind = "none"
\* The slot a new invocation takes.
NewTask == CHOOSE t \in TaskIds : Free(t) /\ \A u \in TaskIds : Free(u) => t <= u
\* A variant of CanSpawn in which no command is taken up while a merge is
\* under way, as if the merge held the event loop.
CanSpawn_idle ==
    /\ \E t \in TaskIds : Free(t)
    /\ \A t \in TaskIds : tasks[t].kind # "merge"

CanSpawn == \E t \in TaskIds : Free(t)
Spawn(task) == tasks' = [tasks EXCEPT ![NewTask] = task]
Finish(t) == tasks' = [tasks EXCEPT ![t] = NoTask]
Goto(t, pc) == tasks' = [tasks EXCEPT ![t].pc = pc]
At(t, kind, pc) == tasks[t].kind = kind /\ tasks[t].pc = pc

\* ws.readyState === WebSocket.OPEN
Open(c) == readyState[c] = "OPEN"
SentToNone == [c \in Ws |-> 0]
SentTo(c) == [d \in Ws |-> IF d = c THEN 1 ELSE 0]

\* A variant of broadcastToClients that does not look at readyState.
broadcastToClients_unchecked == [c \in Ws |-> IF c \in clients THEN 1 ELSE 0]

\* broadcastToClients / broadcast: one client.send for every client of the
\* set whose channel is open.
broadcastToClients == [c \in Ws |-> IF c \in clients /\ Open(c) THEN 1 ELSE 0]

\* sendToClient(ws, message): one send if the channel of the caller is open.
\* The model does not keep the caller of a command: it is any client attached
\* now, or one that is gone.
sendToClient == {SentToNone} \cup {SentTo(c) : c \in {d \in clients : Open(d)}}

Deliveries(to) == IF to = "all" THEN {broadcastToClients} ELSE sendToClient

Send(msg) == \E sent \in Deliveries(msg.to) : log' = Append(log, [msg EXCEPT !.sent = sent])

\* ws.send(message) on the channel of client c.
SendTo(c, msg) ==
    log' = Append(log, [msg EXCEPT !.to = "client",
                                   !.sent = IF Open(c) THEN SentTo(c) ELSE SentToNone])

----------------------------------------------------------------------------
(* The recording engine (OBS), as far as the programs observe it: it       *)
(* accepts StartRecord only when idle and StopRecord only when recording,  *)
(* writes one new file per recording, and emits RecordStateChanged.        *)

Exists(name) == fs[name] # NoFile
FreshNames == {i \in DOMAIN SegNames : ~Exists(SegNames[i])}
FreshName == SegNames[CHOOSE i \in FreshNames : \A j \in FreshNames : i <= j]

\* Only server.js subscribes to RecordStateChanged (server.js:119).
Emit(event) == IF variant = "local" THEN Append(obsQueue, event) ELSE obsQueue

\* A variant of CanStartRecord in which a request is served without a
\* connection.
CanStartRecord_offline == ~obsActive /\ FreshNames # {}

CanStartRecord == obsConnected /\ ~obsActive /\ FreshNames # {}
OBS_StartRecord ==
    /\ obsActive' = TRUE
    /\ obsPath' = FreshName
    /\ fs' = [fs EXCEPT ![FreshName] = [data |-> <<FreshName>>, mtime |-> now]]
    /\ now' = now + 1
    /\ obsQueue' = Emit([outputActive |-> TRUE, outputPath |-> Append(outputPath, FreshName),
                         block |-> obsBlock'])

CanStopRecord == obsConnected /\ obsActive
OBS_StopRecord ==
    /\ obsActive' = FALSE
    /\ fs' = [fs EXCEPT ![obsPath].mtime = now]
    /\ now' = now + 1
    /\ obsQueue' = Emit([outputActive |-> FALSE, outputPath |-> Append(outputPath, obsPath),
                         block |-> obsBlock])
    /\ UNCHANGED <<obsPath, obsBlock>>

\* path.basename
basename(p) == p[Len(p)]

----------------------------------------------------------------------------
(* Connection to the recording engine.                                     *)

StatusMsg(connected, text) ==
    [BaseMsg EXCEPT !.type = "obs_status", !.connected = connected, !.message = text]

recUnchanged == <<variant, hubVars, localVars, currentSession, obsVars, fs, now, tasks, unlinks,
                 ncmds, nmerges>>

\* The process runs until an exception escapes a handler.
Running == ~uncaught

\* server.js: connect_obs -> connectToOBS; a successful obs.connect raises
\* ConnectionOpened, whose handler sets the flag and broadcasts it.
VMS_connectToOBS ==
    /\ Running
    /\ variant = "local" /\ nconn < MaxConn /\ nconn' = nconn + 1
    /\ ~obsConnected
    /\ \/ /\ obsConnected' = TRUE
          /\ Send(StatusMsg(TRUE, <<>>))
       \/ /\ obsConnected' = FALSE
          /\ Send(StatusMsg(FALSE, <<E_OBSRequest>>))
    /\ UNCHANGED recUnchanged

\* part_000: connect_obs -> connectToOBS.
connectToOBS ==
    /\ Running
    /\ variant = "cloud" /\ nconn < MaxConn /\ nconn' = nconn + 1
    /\ ~obsConnected
    /\ \/ /\ obsConnected' = TRUE
          /\ Send(StatusMsg(TRUE, <<>>))
       \/ /\ obsConnected' = FALSE
          /\ Send(StatusMsg(FALSE, <<E_OBSRequest>>))
    /\ UNCHANGED recUnchanged

\* The 'ConnectionClosed' handler of either program.  Events of one socket
\* arrive in order, so the notifications sent before the close come first.
ConnectionClosed ==
    /\ Running
    /\ obsConnected /\ obsQueue = <<>>
    /\ nconn < MaxConn /\ nconn' = nconn + 1
    /\ obsConnected' = FALSE
    /\ Send(StatusMsg(FALSE, <<>>))
    /\ UNCHANGED recUnchanged

\* The 'ConnectionError' handler of either program.
ConnectionError ==
    /\ Running
    /\ obsConnected /\ obsQueue = <<>>
    /\ nconn < MaxConn /\ nconn' = nconn + 1
    /\ obsConnected' = FALSE
    /\ Send(StatusMsg(FALSE, <<E_OBSRequest>>))
    /\ UNCHANGED recUnchanged

----------------------------------------------------------------------------
(* src/server.js: the recording handlers of VideoMasterServer.  An error   *)
(* thrown by a handler is caught by handleClientMessage (server.js:229)    *)
(* and sent to the calling client only.                                    *)

\* The blockIndex either program has on record; -1 when it has none.
RecordedBlockIndex ==
    IF variant = "local" THEN currentBlockIndex
    ELSE IF currentSession = NoSession THEN -1 ELSE currentSession.blockIndex

Arrival == IF \A t \in TaskIds : tasks[t].kind = "none" THEN ncmds + 1 ELSE 0

StartTask(b) == [NoTask EXCEPT !.kind = "start", !.blockIndex = b,
                               !.before = RecordedBlockIndex, !.at = Arrival]
StopTask == [NoTask EXCEPT !.kind = "stop", !.pc = "StopRecord", !.at = Arrival,
                             !.held = currentSession]

\* A variant of VMS_startRecording_refused that has stored the block index
\* before it looks at the connection.
VMS_startRecording_refused_late(b) ==
    /\ Send(ErrorMsg("caller", <<E_OBSNotConnected>>))
    /\ currentBlockIndex' = b
    /\ UNCHANGED tasks

\* startRecording without a connection: it throws before anything else.
VMS_startRecording_refused(b) ==
    /\ Send(ErrorMsg("caller", <<E_OBSNotConnected>>))
    /\ UNCHANGED <<currentBlockIndex, tasks>>

\* start_recording, up to the first await.
VMS_startRecording(b) ==
    /\ variant = "local" /\ ncmds < MaxCmds /\ ncmds' = ncmds + 1
    /\ \/ /\ ~obsConnected
          /\ VMS_startRecording_refused(b)
       \/ /\ obsConnected /\ CanSpawn
          /\ currentBlockIndex' = b
          /\ Spawn([StartTask(b) EXCEPT !.pc = "SetRecordDirectory"])
          /\ UNCHANGED log
    /\ UNCHANGED <<variant, hubVars, obsConnected, isRecording, currentRecordingFile,
                   lastRecordingPath, currentSession, obsVars, fs, now, nconn, unlinks, nmerges>>

\* The reply to SetRecordDirectory; on success StartRecord is requested.
VMS_startRecording_SetRecordDirectory(t) ==
    /\ variant = "local" /\ At(t, "start", "SetRecordDirectory")
    /\ \/ /\ obsConnected
          /\ Goto(t, "StartRecord")
          /\ UNCHANGED log
       \/ /\ Send(ErrorMsg("caller", <<E_OBSRequest>>))
          /\ Finish(t)
    /\ UNCHANGED <<variant, hubVars, obsConnected, localVars, currentSession, obsVars,
                   fs, now, ncmds, nconn, unlinks, nmerges>>

\* The reply to StartRecord.
VMS_startRecording_StartRecord(t) ==
    /\ variant = "local" /\ At(t, "start", "StartRecord")
    /\ \/ /\ CanStartRecord
          /\ obsBlock' = tasks[t].blockIndex
          /\ OBS_StartRecord
          /\ UNCHANGED log
       \/ /\ Send(ErrorMsg("caller", <<E_OBSRequest>>))
          /\ UNCHANGED <<obsVars, fs, now>>
    /\ Finish(t)
    /\ UNCHANGED <<variant, hubVars, obsConnected, localVars, currentSession, ncmds, nconn, unlinks, nmerges>>

\* stop_recording, up to the first await.
VMS_stopRecording ==
    /\ variant = "local" /\ ncmds < MaxCmds /\ ncmds' = ncmds + 1
    /\ \/ /\ ~obsConnected
          /\ UNCHANGED tasks
       \/ /\ obsConnected /\ CanSpawn
          /\ Spawn(StopTask)
    /\ UNCHANGED <<variant, hubVars, obsConnected, localVars, currentSession, obsVars,
                   fs, now, log, nconn, unlinks, nmerges>>

\* The reply to StopRecord.
VMS_stopRecording_StopRecord(t) ==
    /\ variant = "local" /\ At(t, "stop", "StopRecord")
    /\ \/ /\ CanStopRecord
          /\ OBS_StopRecord
          /\ UNCHANGED log
       \/ /\ Send(ErrorMsg("caller", <<E_OBSRequest>>))
          /\ UNCHANGED <<obsVars, fs, now>>
    /\ Finish(t)
    /\ UNCHANGED <<variant, hubVars, obsConnected, localVars, currentSession, ncmds, nconn, unlinks, nmerges>>

\* test_recording, up to the await of StartRecord: no directory is set and
\* no block index is stored.
VMS_testRecording ==
    /\ variant = "local" /\ ncmds < MaxCmds /\ ncmds' = ncmds + 1
    /\ \/ /\ ~obsConnected
          /\ Send(ErrorMsg("caller", <<E_OBSNotConnected>>))
          /\ UNCHANGED tasks
       \/ /\ obsConnected /\ CanSpawn
          /\ Spawn([NoTask EXCEPT !.kind = "test", !.pc = "StartRecord"])
          /\ UNCHANGED log
    /\ UNCHANGED <<variant, hubVars, obsConnected, localVars, currentSession, obsVars,
                   fs, now, nconn, unlinks, nmerges>>

\* The reply to the StartRecord of testRecording; on success the timer is set.
VMS_testRecording_StartRecord(t) ==
    /\ variant = "local" /\ At(t, "test", "StartRecord")
    /\ \/ /\ CanStartRecord
          /\ obsBlock' = -1
          /\ OBS_StartRecord
          /\ Goto(t, "setTimeout")
          /\ UNCHANGED log
       \/ /\ Send(ErrorMsg("caller", <<E_OBSRequest>>))
          /\ Finish(t)
          /\ UNCHANGED <<obsVars, fs, now>>
    /\ UNCHANGED <<variant, hubVars, obsConnected, localVars, currentSession, ncmds, nconn, unlinks, nmerges>>

\* A variant of the timer's callback that asks for the stop only while the
\* program believes it is recording.
VMS_testRecording_setTimeout_ifRecording(t) ==
    /\ variant = "local" /\ At(t, "test", "setTimeout")
    /\ IF isRecording THEN Goto(t, "StopRecord") ELSE Finish(t)
    /\ UNCHANGED <<variant, hubVars, obsConnected, localVars, currentSession, obsVars,
                   fs, now, log, ncmds, nconn, unlinks, nmerges>>

\* The timer of testRecording fires: its callback calls StopRecord, whatever
\* the state.
VMS_testRecording_setTimeout(t) ==
    /\ variant = "local" /\ At(t, "test", "setTimeout")
    /\ Goto(t, "StopRecord")
    /\ UNCHANGED <<variant, hubVars, obsConnected, localVars, currentSession, obsVars,
                   fs, now, log, ncmds, nconn, unlinks, nmerges>>

\* The reply to the StopRecord of the timer's callback; a failure is written
\* to the console only.
VMS_testRecording_StopRecord(t) ==
    /\ variant = "local" /\ At(t, "test", "StopRecord")
    /\ \/ /\ CanStopRecord
          /\ OBS_StopRecord
       \/ UNCHANGED <<obsVars, fs, now>>
    /\ Finish(t)
    /\ UNCHANGED <<variant, hubVars, obsConnected, localVars, currentSession, log, ncmds, nconn, unlinks, nmerges>>

StartedMsg(filename, fullPath, blockIndex) ==
    [BaseMsg EXCEPT !.type = "recording_started", !.filename = filename,
                    !.fullPath = fullPath, !.blockIndex = blockIndex]

StoppedMsg(filename, fullPath, blockIndex, fileExists) ==
    [BaseMsg EXCEPT !.type = "recording_stopped", !.filename = filename,
                    !.fullPath = fullPath, !.blockIndex = blockIndex,
                    !.fileExists = fileExists]

\* fs.existsSync of a path: the output directory itself, or a file in it.
existsSync(p) ==
    \/ p = outputPath
    \/ /\ Len(p) = Len(outputPath) + 1
       /\ SubSeq(p, 1, Len(outputPath)) = outputPath
       /\ basename(p) \in DOMAIN fs
       /\ Exists(basename(p))

\* The 'RecordStateChanged' handler.
VMS_RecordStateChanged ==
    /\ variant = "local" /\ obsQueue # <<>>
    /\ obsQueue' = Tail(obsQueue)
    /\ LET data == Head(obsQueue) IN
       \/ /\ data.outputActive
          /\ currentRecordingFile' = basename(data.outputPath)
          /\ lastRecordingPath' = data.outputPath
          /\ isRecording' = TRUE
          /\ Send(StartedMsg(basename(data.outputPath), data.outputPath, currentBlockIndex))
       \/ /\ ~data.outputActive
          /\ isRecording' = FALSE
          /\ Send(StoppedMsg(currentRecordingFile, lastRecordingPath, currentBlockIndex,
                             IF lastRecordingPath # <<>> THEN existsSync(lastRecordingPath)
                                                         ELSE FALSE))
          /\ UNCHANGED <<currentRecordingFile, lastRecordingPath>>
    /\ UNCHANGED <<variant, hubVars, obsConnected, currentBlockIndex, currentSession,
                   obsActive, obsPath, obsBlock, fs, now, tasks, ncmds, nconn, unlinks,
                   nmerges>>

----------------------------------------------------------------------------
(* src/unnamed/part_000: startRecording and stopRecording.  Each catches   *)
(* its own errors and broadcasts them to every client.                     *)

cloudUnchanged == <<variant, hubVars, obsConnected, localVars, unlinks, ncmds, nmerges, nconn>>

\* start_recording, up to the await of GetRecordStatus.
startRecording(b) ==
    /\ variant = "cloud" /\ ncmds < MaxCmds /\ ncmds' = ncmds + 1
    /\ \/ /\ ~obsConnected
          /\ Send(ErrorMsg("all", <<P_StartError, E_OBSNePodklyuchen>>))
          /\ UNCHANGED tasks
       \/ /\ obsConnected /\ CanSpawn
          /\ Spawn([StartTask(b) EXCEPT !.pc = "GetRecordStatus"])
          /\ UNCHANGED log
    /\ UNCHANGED <<variant, hubVars, obsConnected, localVars, currentSession, obsVars,
                   fs, now, nconn, unlinks, nmerges>>

\* The reply to GetRecordStatus.
startRecording_GetRecordStatus(t) ==
    /\ variant = "cloud" /\ At(t, "start", "GetRecordStatus")
    /\ \/ /\ obsConnected /\ obsActive
          /\ Send(ErrorMsg("all", <<P_StartError, E_AlreadyActive>>))
          /\ Finish(t)
       \/ /\ obsConnected /\ ~obsActive
          /\ Goto(t, "SetRecordDirectory")
          /\ UNCHANGED log
       \/ /\ Send(ErrorMsg("all", <<P_StartError, E_OBSRequest>>))
          /\ Finish(t)
    /\ UNCHANGED <<cloudUnchanged, currentSession, obsVars, fs, now>>

\* The reply to SetRecordDirectory.
startRecording_SetRecordDirectory(t) ==
    /\ variant = "cloud" /\ At(t, "start", "SetRecordDirectory")
    /\ \/ /\ obsConnected
          /\ Goto(t, "StartRecord")
          /\ UNCHANGED log
       \/ /\ Send(ErrorMsg("all", <<P_StartError, E_OBSRequest>>))
          /\ Finish(t)
    /\ UNCHANGED <<cloudUnchanged, currentSession, obsVars, fs, now>>

Session(blockIndex, startTime) ==
    [blockIndex |-> blockIndex, filename |-> <<"block", blockIndex + 1, startTime>>,
     startTime |-> startTime]

\* The reply to StartRecord; on success the session is created and
\* recording_started is broadcast.
startRecording_StartRecord(t) ==
    /\ variant = "cloud" /\ At(t, "start", "StartRecord")
    /\ \/ /\ CanStartRecord
          /\ obsBlock' = tasks[t].blockIndex
          /\ OBS_StartRecord
          /\ currentSession' = Session(tasks[t].blockIndex, now)
          /\ Send([BaseMsg EXCEPT !.type = "recording_started",
                                  !.blockIndex = tasks[t].blockIndex])
       \/ /\ Send(ErrorMsg("all", <<P_StartError, E_OBSRequest>>))
          /\ UNCHANGED <<currentSession, obsVars, fs, now>>
    /\ Finish(t)
    /\ UNCHANGED cloudUnchanged

\* stop_recording, up to the await of StopRecord.
stopRecording ==
    /\ variant = "cloud" /\ ncmds < MaxCmds /\ ncmds' = ncmds + 1
    /\ \/ /\ ~obsConnected
          /\ Send(ErrorMsg("all", <<P_StopError, E_OBSNePodklyuchen>>))
          /\ currentSession' = NoSession
          /\ UNCHANGED tasks
       \/ /\ obsConnected /\ currentSession = NoSession
          /\ Send(ErrorMsg("all", <<P_StopError, E_NoSession>>))
          /\ currentSession' = NoSession
          /\ UNCHANGED tasks
       \/ /\ obsConnected /\ currentSession # NoSession /\ CanSpawn
          /\ Spawn(StopTask)
          /\ UNCHANGED <<log, currentSession>>
    /\ UNCHANGED <<variant, hubVars, obsConnected, localVars, obsVars, fs, now, nconn, unlinks, nmerges>>

\* The reply to StopRecord; on success the handler sleeps two seconds.
stopRecording_StopRecord(t) ==
    /\ variant = "cloud" /\ At(t, "stop", "StopRecord")
    /\ \/ /\ CanStopRecord
          /\ OBS_StopRecord
          /\ tasks' = [tasks EXCEPT ![t].pc = "setTimeout",
                                    ![t].event = [outputActive |-> FALSE,
                                                   outputPath |-> Append(outputPath, obsPath),
                                                   block |-> obsBlock]]
          /\ UNCHANGED <<log, currentSession>>
       \/ /\ Send(ErrorMsg("all", <<P_StopError, E_OBSRequest>>))
          /\ currentSession' = NoSession
          /\ Finish(t)
          /\ UNCHANGED <<obsVars, fs, now>>
    /\ UNCHANGED cloudUnchanged

\* After the sleep: the session is read and the directory listing requested.
stopRecording_setTimeout(t) ==
    /\ variant = "cloud" /\ At(t, "stop", "setTimeout")
    /\ \/ /\ currentSession # NoSession
          /\ tasks' = [tasks EXCEPT ![t].pc = "readdir", ![t].session = currentSession]
          /\ UNCHANGED <<log, currentSession>>
       \/ /\ currentSession = NoSession
          /\ Send(ErrorMsg("all", <<P_StopError, E_TypeError>>))
          /\ currentSession' = NoSession
          /\ Finish(t)
    /\ UNCHANGED <<cloudUnchanged, obsVars, fs, now>>

\* The .mp4 / .mkv files of the output directory.
VideoFiles == {f \in DOMAIN fs : Exists(f) /\ f # ListFile}
\* The candidates for the first place of the listing sorted by mtime, newest first.
Newest == {f \in VideoFiles : \A g \in VideoFiles : fs[g].mtime <= fs[f].mtime}

\* The listing arrives: the newest video file is chosen and its stat requested.
stopRecording_readdir(t) ==
    /\ variant = "cloud" /\ At(t, "stop", "readdir")
    /\ \/ /\ \E recentFile \in Newest :
                tasks' = [tasks EXCEPT ![t].pc = "stat", ![t].file = recentFile]
          /\ UNCHANGED <<log, currentSession>>
       \/ /\ VideoFiles = {}
          /\ Send(ErrorMsg("all", <<P_StopError, E_NoRecordedFile>>))
          /\ currentSession' = NoSession
          /\ Finish(t)
    /\ UNCHANGED <<cloudUnchanged, obsVars, fs, now>>

\* The stat arrives: recording_stopped is broadcast and the session dropped.
stopRecording_stat(t) ==
    /\ variant = "cloud" /\ At(t, "stop", "stat")
    /\ Send(StoppedMsg(tasks[t].file, Append(outputPath, tasks[t].file),
                       tasks[t].session.blockIndex, TRUE))
    /\ currentSession' = NoSession
    /\ Finish(t)
    /\ UNCHANGED <<cloudUnchanged, obsVars, fs, now>>

----------------------------------------------------------------------------
(* The recording side of the server alone.                                 *)

InitCommon ==
    /\ variant \in {"local", "cloud"}
    /\ obsConnected = FALSE
    /\ isRecording = FALSE
    /\ currentBlockIndex = 0
    /\ currentRecordingFile = Null
    /\ lastRecordingPath = <<>>
    /\ currentSession = NoSession
    /\ obsActive = FALSE
    /\ obsPath = Null
    /\ obsBlock = -1
    /\ obsQueue = <<>>
    /\ now = 1
    /\ tasks = [t \in TaskIds |-> NoTask]
    /\ log = <<>>
    /\ unlinks = 0
    /\ ncmds = 0
    /\ nmerges = 0
    /\ nconn = 0
    /\ clients = {}
    /\ readyState = [c \in Ws |-> "CONNECTING"]
    /\ uncaught = FALSE

InitRec ==
    /\ InitCommon
    /\ fs = [f \in FileNames |-> NoFile]

NextRec ==
    \/ VMS_connectToOBS
    \/ connectToOBS
    \/ ConnectionClosed
    \/ ConnectionError
    \/ \E b \in BlockIndexes : VMS_startRecording(b)
    \/ \E t \in TaskIds : VMS_startRecording_SetRecordDirectory(t)
    \/ \E t \in TaskIds : VMS_startRecording_StartRecord(t)
    \/ VMS_stopRecording
    \/ \E t \in TaskIds : VMS_stopRecording_StopRecord(t)
    \/ VMS_RecordStateChanged
    \/ \E b \in BlockIndexes : startRecording(b)
    \/ \E t \in TaskIds : startRecording_GetRecordStatus(t)
    \/ \E t \in TaskIds : startRecording_SetRecordDirectory(t)
    \/ \E t \in TaskIds : startRecording_StartRecord(t)
    \/ stopRecording
    \/ \E t \in TaskIds : stopRecording_StopRecord(t)
    \/ \E t \in TaskIds : stopRecording_setTimeout(t)
    \/ \E t \in TaskIds : stopRecording_readdir(t)
    \/ \E t \in TaskIds : stopRecording_stat(t)

SpecRec == InitRec /\ [][NextRec]_vars

\* The recording side with test_recording, which only src/server.js has.
NextTest ==
    \/ NextRec
    \/ VMS_testRecording
    \/ \E t \in TaskIds : VMS_testRecording_StartRecord(t)
    \/ \E t \in TaskIds : VMS_testRecording_setTimeout(t)
    \/ \E t \in TaskIds : VMS_testRecording_StopRecord(t)

SpecTest == InitRec /\ [][NextTest]_vars

\* A timer that has been set fires (Node's event loop runs its callback).
TimersFire == \A t \in TaskIds : WF_vars(VMS_testRecording_setTimeout(t))

SpecTestFair == SpecTest /\ TimersFire

----------------------------------------------------------------------------
(* The client channels: wss.on('connection') and the handlers it installs  *)
(* on the new channel.  A channel is CONNECTING until the server is given  *)
(* it, then OPEN, CLOSING after an error and CLOSED at the end.            *)

hubUnchanged == <<variant, obsConnected, localVars, currentSession, obsVars, fs, now,
                  unlinks, nmerges, nconn>>

\* The channel the server is given next.
NewWs == CHOOSE c \in Ws : readyState[c] = "CONNECTING"
                           /\ \A d \in Ws : readyState[d] = "CONNECTING" => c <= d
CanAttach == \E c \in Ws : readyState[c] = "CONNECTING"

\* server.js: the 'connection' handler adds the client to this.clients.
VMS_connection ==
    /\ Running
    /\ variant = "local" /\ CanAttach
    /\ clients' = clients \cup {NewWs}
    /\ readyState' = [readyState EXCEPT ![NewWs] = "OPEN"]
    /\ UNCHANGED <<hubUnchanged, tasks, log, ncmds, uncaught>>

\* part_000: the 'connection' handler sends the connection status to the new
\* client and starts getVideoList, which runs up to its await of readdir.
connection ==
    /\ Running
    /\ variant = "cloud" /\ CanAttach /\ CanSpawn
    /\ clients' = clients \cup {NewWs}
    /\ readyState' = [readyState EXCEPT ![NewWs] = "OPEN"]
    /\ log' = Append(log, [StatusMsg(obsConnected, <<>>) EXCEPT !.to = "client",
                                                          !.sent = SentTo(NewWs)])
    /\ Spawn([NoTask EXCEPT !.kind = "list", !.pc = "readdir"])
    /\ UNCHANGED <<hubUnchanged, ncmds, uncaught>>

\* getVideoList: the listing arrives and the stats of the video files are
\* requested.
getVideoList_readdir(t) ==
    /\ Running
    /\ variant = "cloud" /\ At(t, "list", "readdir")
    /\ Goto(t, "stat")
    /\ UNCHANGED <<hubUnchanged, hubVars, log, ncmds>>

\* getVideoList: the stats arrive and video_list is broadcast.
getVideoList_stat(t) ==
    /\ Running
    /\ variant = "cloud" /\ At(t, "list", "stat")
    /\ Send([BaseMsg EXCEPT !.type = "video_list"])
    /\ Finish(t)
    /\ UNCHANGED <<hubUnchanged, hubVars, ncmds>>

\* The 'close' event of a channel.  server.js deletes the client from
\* this.clients; in part_000 the ws library takes it out of wss.clients.
ws_close(c) ==
    /\ Running
    /\ readyState[c] \in {"OPEN", "CLOSING"}
    /\ readyState' = [readyState EXCEPT ![c] = "CLOSED"]
    /\ clients' = clients \ {c}
    /\ UNCHANGED <<hubUnchanged, tasks, log, ncmds, uncaught>>

\* The 'error' event of a channel, which the ws library raises while it
\* closes the channel.  server.js deletes the client; part_000 only logs.
ws_error(c) ==
    /\ Running
    /\ readyState[c] = "OPEN"
    /\ readyState' = [readyState EXCEPT ![c] = "CLOSING"]
    /\ clients' = IF variant = "local" THEN clients \ {c} ELSE clients
    /\ UNCHANGED <<hubUnchanged, tasks, log, ncmds, uncaught>>

E_SyntaxError == "SyntaxError"                     \* JSON.parse of a malformed text
P_ServerError == "Oshibka servera:"                \* part_000:388

\* server.js: a message that is not JSON.  JSON.parse is called in the
\* 'message' listener itself, outside any try: the exception is uncaught.
VMS_message_malformed(c) ==
    /\ Running
    /\ variant = "local" /\ ncmds < MaxMalformed /\ ncmds' = ncmds + 1
    /\ c \in clients /\ Open(c)
    /\ uncaught' = TRUE
    /\ UNCHANGED <<hubUnchanged, clients, readyState, tasks, log>>

\* part_000: a message that is not JSON.  JSON.parse is called inside the
\* try of the 'message' listener, whose catch answers the sender.
message_malformed(c) ==
    /\ Running
    /\ variant = "cloud" /\ ncmds < MaxMalformed /\ ncmds' = ncmds + 1
    /\ c \in clients /\ Open(c)
    /\ SendTo(c, ErrorMsg("client", <<P_ServerError, E_SyntaxError>>))
    /\ UNCHANGED <<hubUnchanged, hubVars, tasks>>

\* The server with its clients.
NextHub ==
    \/ VMS_connection
    \/ connection
    \/ \E t \in TaskIds : getVideoList_readdir(t)
    \/ \E t \in TaskIds : getVideoList_stat(t)
    \/ \E c \in Ws : ws_close(c)
    \/ \E c \in Ws : ws_error(c)
    \/ \E c \in Ws : VMS_message_malformed(c)
    \/ \E c \in Ws : message_malformed(c)
    \/ VMS_connectToOBS
    \/ connectToOBS
    \/ ConnectionClosed
    \/ ConnectionError

SpecHub == InitRec /\ [][NextHub]_vars

----------------------------------------------------------------------------
(* Claims about the recording session.                                     *)

\* A start_recording command is received.
StartCmd(b) == VMS_startRecording(b) \/ startRecording(b)
\* A stop_recording command is received.
StopCmd == VMS_stopRecording \/ stopRecording
\* A start_recording handler ends in this step.
StartEnds(t) == tasks[t].kind = "start" /\ tasks'[t].kind = "none"

NoStopInFlight == \A t \in TaskIds : tasks[t].kind # "stop"
\* An accepted start is recording and no stop has been asked for.
SessionHeld == obsConnected /\ obsActive /\ NoStopInFlight

BackendUnavailable(msg) ==
    /\ msg.type = "error"
    /\ Contains(msg.message, E_OBSNotConnected) \/ Contains(msg.message, E_OBSNePodklyuchen)

\* The session as either program keeps it.
sessionVars == <<isRecording, currentBlockIndex, currentRecordingFile,
                 lastRecordingPath, currentSession>>

\* C1: a start_recording handled while an accepted start is still recording
\* (no stop in between) fails, as AlreadyRecording, and leaves the session's
\* blockIndex and startTime as they were.  The failure is taken in its widest
\* sense: the handler ends with an error message, whichever its text.
C1_ConflictRejection ==
    [][ /\ \A b \in BlockIndexes :
              (StartCmd(b) /\ SessionHeld) =>
                  /\ currentBlockIndex' = currentBlockIndex
                  /\ currentSession' = currentSession
        /\ \A t \in TaskIds :
              (StartEnds(t) /\ SessionHeld) =>
                  /\ Len(log') = Len(log) + 1
                  /\ log'[Len(log')].type = "error"
                  /\ currentBlockIndex' = currentBlockIndex
                  /\ currentSession' = currentSession ]_vars

\* C2: a stop_recording handled while disconnected sends no error, asks
\* nothing of the engine and leaves the session exactly as it was.
C2_DisconnectionSafety ==
    [][ (StopCmd /\ ~obsConnected) =>
            /\ log' = log
            /\ tasks' = tasks
            /\ UNCHANGED sessionVars ]_vars

\* C3: a start_recording handled while disconnected fails with
\* BackendUnavailable, asks nothing of the engine (no handler is left waiting
\* for a reply, the engine is untouched) and leaves the session unchanged.
C3_StartWhileDisconnected ==
    [][ \A b \in BlockIndexes :
            (StartCmd(b) /\ ~obsConnected) =>
                /\ Len(log') = Len(log) + 1
                /\ SubSeq(log', 1, Len(log)) = log
                /\ BackendUnavailable(log'[Len(log')])
                /\ tasks' = tasks
                /\ UNCHANGED <<obsVars, fs>>
                /\ UNCHANGED sessionVars ]_vars

\* A start was refused for want of a connection while a session, with a
\* block index other than the initial one, was being held.
C3_Witness ==
    /\ ~obsConnected
    /\ log # <<>> /\ BackendUnavailable(log[Len(log)])
    /\ \/ variant = "local" /\ isRecording /\ currentBlockIndex = 1
          /\ log[Len(log)].to = "caller"
       \/ variant = "cloud" /\ currentSession # NoSession
          /\ currentSession.blockIndex = 1
          /\ Contains(log[Len(log)].message, P_StartError)

\* C4: every recording_stopped broadcast is preceded by a recording_started
\* broadcast of the same block, with no other recording_stopped of that block
\* in between.
C4_StartedBeforeStopped ==
    \A i \in DOMAIN log :
        log[i].type = "recording_stopped" =>
            \E j \in 1..(i - 1) :
                /\ log[j].type = "recording_started"
                /\ log[j].blockIndex = log[i].blockIndex
                /\ \A k \in (j + 1)..(i - 1) :
                      ~(log[k].type = "recording_stopped"
                        /\ log[k].blockIndex = log[i].blockIndex)

----------------------------------------------------------------------------
(* Merging.  A block identifier is a string, kept as its sequence of       *)
(* fragments: <<>> is the empty string and <<"a.mp4", RejectedMarker>> the *)
(* name a.mp4 followed by the marker.                                      *)

BlockIds == {<<>>, <<"a.mp4">>, <<"b.mp4">>, <<"c.mp4">>, <<"a.mp4", RejectedMarker>>}
BlockLists == UNION {[1..n -> BlockIds] : n \in 0..MaxBlocks}

\* The string a sequence of fragments spells.
RECURSIVE Text(_)
Text(block) == IF block = <<>> THEN "" ELSE Head(block) \o Text(Tail(block))

\* String.prototype.includes
includes(block, fragment) == \E i \in DOMAIN block : block[i] = fragment

\* path.join(dir, name): an empty name adds nothing to the directory.
path_join(dir, block) == IF block = <<>> THEN dir ELSE Append(dir, Text(block))

\* A path that can be read as a file.
Readable(p) == existsSync(p) /\ p # outputPath
ReadFile(p) == fs[basename(p)].data
RECURSIVE Concat(_)
\* The streams of the given files, one after the other.
Concat(paths) == IF paths = <<>> THEN <<>>
                 ELSE ReadFile(Head(paths)) \o Concat(Tail(paths))

WriteFile(p, data) == [fs EXCEPT ![basename(p)] = [data |-> data, mtime |-> now]]

MergedMsg(outputFile, fileSize, blocksCount, method) ==
    [BaseMsg EXCEPT !.type = "video_merged", !.outputFile = outputFile,
                    !.fileSize = fileSize, !.blocksCount = blocksCount,
                    !.method = method]

E_NoValidFiles == "Net deystvitelnykh videofaylov"      \* server.js:404
E_NetValidnykh == "Net validnykh videofaylov"           \* part_000:211
E_CopyFailed == "copyFile failed"                       \* a failing fs.copyFile
E_FFmpegFailed == "FFmpeg failed:"                      \* server.js:525
E_AltFFmpegFailed == "Alternative FFmpeg failed:"       \* server.js:557
E_FFmpegCode == "FFmpeg zavershilsya s kodom"           \* part_000:255
E_Exec == "Command failed"                              \* the error exec reports
P_MergeFailed == "Skleyka ne udalas:"                   \* server.js:484
P_AltFailed == "Alternativnyy metod takzhe ne srabotal:" \* server.js:484
P_MergeError == "Oshibka obyedineniya video:"           \* part_000:283

mergeUnchanged == <<variant, hubVars, obsConnected, localVars, currentSession, obsVars, ncmds, nconn>>

MergeTask(projectName, validBlocks) ==
    [NoTask EXCEPT !.kind = "merge", !.projectName = projectName,
                   !.validBlocks = validBlocks]

\* ---- src/server.js ----

VMS_isValid(block) ==
    IF block = <<>> \/ includes(block, RejectedMarker)
    THEN FALSE
    ELSE existsSync(path_join(outputPath, block))

\* The validBlocks filter of mergeVideos.
VMS_validBlocks(blocks) == SelectSeq(blocks, VMS_isValid)

VMS_outputFile(projectName) == Append(outputPath, projectName \o Mp4)
\* A variant of VMS_altOutputFile that names the primary's output.
VMS_altOutputFile_same(projectName) == Append(outputPath, projectName \o Mp4)

VMS_altOutputFile(projectName) == Append(outputPath, projectName \o "_alt" \o Mp4)

\* A variant of VMS_fileList that lists the files last to first.
VMS_fileList_reversed(videoFiles) ==
    [i \in DOMAIN videoFiles |->
        <<"file", path_join(outputPath, videoFiles[Len(videoFiles) + 1 - i])>>]

\* mergeWithFFmpeg: the lines of filelist.txt.
VMS_fileList(videoFiles) ==
    [i \in DOMAIN videoFiles |-> <<"file", path_join(outputPath, videoFiles[i])>>]

\* mergeVideosAlternative: the -i arguments and the filter graph's labels.
VMS_inputs(videoFiles) ==
    [i \in DOMAIN videoFiles |-> path_join(outputPath, videoFiles[i])]
VMS_filterComplex(videoFiles) == [i \in DOMAIN videoFiles |-> i - 1]

\* The task running mergeVideosAlternative after `error`.
VMS_Alternative(task, error) ==
    [task EXCEPT !.pc = "alternative", !.error = error,
                 !.inputs = VMS_inputs(task.validBlocks),
                 !.labels = VMS_filterComplex(task.validBlocks)]

\* A variant of VMS_mergeVideos_empty that has written the manifest before
\* it looks at the number of valid blocks.
VMS_mergeVideos_empty_late ==
    /\ Send(ErrorMsg("caller", <<E_NoValidFiles>>))
    /\ fs' = WriteFile(Append(outputPath, ListFile), <<>>)
    /\ now' = now + 1
    /\ UNCHANGED tasks

\* mergeVideos with no valid block: it throws before it writes anything.
VMS_mergeVideos_empty ==
    /\ Send(ErrorMsg("caller", <<E_NoValidFiles>>))
    /\ UNCHANGED <<fs, now, tasks>>

\* merge_videos, up to the first await: the filter, then nothing, the copy
\* of a single file, or the manifest and the start of ffmpeg.
VMS_mergeVideos(blocks, projectName) ==
    /\ variant = "local" /\ nmerges < MaxMerges /\ nmerges' = nmerges + 1
    /\ LET validBlocks == VMS_validBlocks(blocks)
           outputFile == VMS_outputFile(projectName)
           task == MergeTask(projectName, validBlocks)
       IN \/ /\ Len(validBlocks) = 0
             /\ VMS_mergeVideos_empty
          \/ /\ Len(validBlocks) = 1
             /\ LET inputFile == path_join(outputPath, validBlocks[1]) IN
                \/ /\ Readable(inputFile)
                   /\ fs' = WriteFile(outputFile, ReadFile(inputFile))
                   /\ now' = now + 1
                   /\ Send(MergedMsg(outputFile, Len(ReadFile(inputFile)), 1, Null))
                   /\ UNCHANGED tasks
                \/ /\ CanSpawn
                   /\ Spawn(VMS_Alternative(task, <<E_CopyFailed>>))
                   /\ UNCHANGED <<fs, now, log>>
          \/ /\ Len(validBlocks) >= 2 /\ CanSpawn
             /\ fs' = WriteFile(Append(outputPath, ListFile), VMS_fileList(validBlocks))
             /\ now' = now + 1
             /\ Spawn([task EXCEPT !.pc = "exec", !.manifest = VMS_fileList(validBlocks)])
             /\ UNCHANGED log
    /\ UNCHANGED <<mergeUnchanged, unlinks>>

\* ---- the ffmpeg subprocess of the primary strategy ----

\* ffmpeg opens the manifest it was given and reads its lines.
ffmpeg_read(t) ==
    /\ At(t, "merge", "exec")
    /\ tasks' = [tasks EXCEPT ![t].pc = "running",
                              ![t].read = IF Exists(ListFile) THEN fs[ListFile].data
                                          ELSE <<>>]
    /\ UNCHANGED <<mergeUnchanged, fs, now, log, unlinks, nmerges>>

\* ffmpeg opens its output.  Started without -y (server.js:508, 548) it
\* does not write over a file that is there; started with -y (part_000:239)
\* it empties the file and writes from the start.
CanCreate(p) == ~Exists(basename(p))
\* The output directory after an ffmpeg that opened its output and failed.
Unfinished(p) == WriteFile(p, <<>>)

\* The files the lines of a manifest name.
Listed(lines) == [i \in DOMAIN lines |-> lines[i][2]]
AllReadable(paths) == paths # <<>> /\ \A i \in DOMAIN paths : Readable(paths[i])

\* ---- src/server.js, continued ----

\* exec's callback in mergeWithFFmpeg, ffmpeg having ended well: the manifest
\* is removed, the output is there and video_merged is broadcast.
VMS_mergeWithFFmpeg_resolve(t) ==
    /\ variant = "local" /\ At(t, "merge", "running")
    /\ AllReadable(Listed(tasks[t].read))
    /\ CanCreate(VMS_outputFile(tasks[t].projectName))
    /\ LET outputFile == VMS_outputFile(tasks[t].projectName)
           data == Concat(Listed(tasks[t].read))
       IN /\ fs' = [WriteFile(outputFile, data) EXCEPT ![ListFile] = NoFile]
          /\ Send(MergedMsg(outputFile, Len(data), Len(tasks[t].validBlocks), Null))
    /\ now' = now + 1
    /\ Finish(t)
    /\ UNCHANGED <<mergeUnchanged, unlinks, nmerges>>

\* exec's callback in mergeWithFFmpeg, ffmpeg having failed, with or without
\* an unfinished output left behind: the manifest is removed and the catch of
\* mergeVideos starts mergeVideosAlternative.
VMS_mergeWithFFmpeg_reject(t) ==
    /\ variant = "local" /\ At(t, "merge", "running")
    /\ LET outputFile == VMS_outputFile(tasks[t].projectName) IN
       \/ fs' = [fs EXCEPT ![ListFile] = NoFile]
       \/ /\ CanCreate(outputFile)
          /\ fs' = [Unfinished(outputFile) EXCEPT ![ListFile] = NoFile]
    /\ tasks' = [tasks EXCEPT ![t] = VMS_Alternative(tasks[t], <<E_FFmpegFailed, E_Exec>>)]
    /\ UNCHANGED <<mergeUnchanged, now, log, unlinks, nmerges>>

\* The streams in the order the filter graph joins them.
Joined(inputs, labels) == [k \in DOMAIN labels |-> inputs[labels[k] + 1]]

\* exec's callback in mergeVideosAlternative, ffmpeg having ended well.
VMS_mergeVideosAlternative_resolve(t) ==
    /\ variant = "local" /\ At(t, "merge", "alternative")
    /\ AllReadable(tasks[t].inputs)
    /\ CanCreate(VMS_altOutputFile(tasks[t].projectName))
    /\ LET altOutputFile == VMS_altOutputFile(tasks[t].projectName)
           data == Concat(Joined(tasks[t].inputs, tasks[t].labels))
       IN /\ fs' = WriteFile(altOutputFile, data)
          /\ Send(MergedMsg(altOutputFile, Len(data), Len(tasks[t].validBlocks),
                            "alternative"))
    /\ now' = now + 1
    /\ Finish(t)
    /\ UNCHANGED <<mergeUnchanged, unlinks, nmerges>>

\* A variant of VMS_bothFailed that keeps the last error only.
VMS_bothFailed_last(error, altError) == <<P_MergeFailed>> \o altError

\* The text of the error mergeVideos throws when both attempts failed.
VMS_bothFailed(error, altError) ==
    <<P_MergeFailed>> \o error \o <<P_AltFailed>> \o altError

\* A variant of VMS_mergeVideosAlternative_reject in which the error of the
\* second failure is dropped.
VMS_mergeVideosAlternative_reject_silent(t) ==
    /\ variant = "local" /\ At(t, "merge", "alternative")
    /\ Finish(t)
    /\ UNCHANGED <<mergeUnchanged, fs, now, log, unlinks, nmerges>>

\* exec's callback in mergeVideosAlternative, ffmpeg having failed, with or
\* without an unfinished output left behind.
VMS_mergeVideosAlternative_reject(t) ==
    /\ variant = "local" /\ At(t, "merge", "alternative")
    /\ LET altOutputFile == VMS_altOutputFile(tasks[t].projectName) IN
       \/ UNCHANGED fs
       \/ /\ CanCreate(altOutputFile)
          /\ fs' = Unfinished(altOutputFile)
    /\ Send(ErrorMsg("caller",
                     VMS_bothFailed(tasks[t].error, <<E_AltFFmpegFailed, E_Exec>>)))
    /\ Finish(t)
    /\ UNCHANGED <<mergeUnchanged, now, unlinks, nmerges>>

\* ---- src/unnamed/part_000 ----

isValid(filename) == existsSync(path_join(outputPath, filename))

\* The validBlocks filter of mergeVideos.
validBlocksOf(blocks) == SelectSeq(blocks, isValid)

outputPathOf(projectName) == path_join(outputPath, <<projectName \o Mp4>>)

\* The lines of filelist.txt.
fileListContent(validBlocks) ==
    [i \in DOMAIN validBlocks |-> <<"file", path_join(outputPath, validBlocks[i])>>]

\* merge_videos, up to the first await: the filter, then nothing, the
\* request to copy a single file, or the request to write the manifest.
mergeVideos(blocks, projectName) ==
    /\ variant = "cloud" /\ nmerges < MaxMerges /\ nmerges' = nmerges + 1
    /\ LET validBlocks == validBlocksOf(blocks)
           task == MergeTask(projectName, validBlocks)
       IN \/ /\ Len(validBlocks) = 0
             /\ Send(ErrorMsg("all", <<P_MergeError, E_NetValidnykh>>))
             /\ UNCHANGED tasks
          \/ /\ Len(validBlocks) = 1 /\ CanSpawn
             /\ Spawn([task EXCEPT !.pc = "copyFile"])
             /\ UNCHANGED log
          \/ /\ Len(validBlocks) >= 2 /\ CanSpawn
             /\ Spawn([task EXCEPT !.pc = "writeFile",
                                   !.manifest = fileListContent(validBlocks)])
             /\ UNCHANGED log
    /\ UNCHANGED <<mergeUnchanged, fs, now, unlinks>>

\* fs.copyFile ends.
mergeVideos_copyFile(t) ==
    /\ variant = "cloud" /\ At(t, "merge", "copyFile")
    /\ LET sourcePath == path_join(outputPath, tasks[t].validBlocks[1]) IN
       \/ /\ Readable(sourcePath)
          /\ fs' = WriteFile(outputPathOf(tasks[t].projectName), ReadFile(sourcePath))
          /\ now' = now + 1
          /\ Goto(t, "stat")
          /\ UNCHANGED log
       \/ /\ Send(ErrorMsg("all", <<P_MergeError, E_CopyFailed>>))
          /\ Finish(t)
          /\ UNCHANGED <<fs, now>>
    /\ UNCHANGED <<mergeUnchanged, unlinks, nmerges>>

\* fs.writeFile of the manifest ends and ffmpeg is spawned.
mergeVideos_writeFile(t) ==
    /\ variant = "cloud" /\ At(t, "merge", "writeFile")
    /\ fs' = WriteFile(Append(outputPath, ListFile), tasks[t].manifest)
    /\ now' = now + 1
    /\ Goto(t, "exec")
    /\ UNCHANGED <<mergeUnchanged, log, unlinks, nmerges>>

\* ffmpeg's 'close' with code 0: the manifest's removal is requested and
\* the output's stat awaited.
mergeVideos_close_resolve(t) ==
    /\ variant = "cloud" /\ At(t, "merge", "running")
    /\ AllReadable(Listed(tasks[t].read))
    /\ fs' = WriteFile(outputPathOf(tasks[t].projectName), Concat(Listed(tasks[t].read)))
    /\ now' = now + 1
    /\ unlinks' = unlinks + 1
    /\ Goto(t, "stat")
    /\ UNCHANGED <<mergeUnchanged, log, nmerges>>

\* ffmpeg's 'close' with another code, with or without an unfinished output
\* left behind: the manifest's removal is requested and the error broadcast.
mergeVideos_close_reject(t) ==
    /\ variant = "cloud" /\ At(t, "merge", "running")
    /\ \/ UNCHANGED fs
       \/ fs' = Unfinished(outputPathOf(tasks[t].projectName))
    /\ unlinks' = unlinks + 1
    /\ Send(ErrorMsg("all", <<P_MergeError, E_FFmpegCode>>))
    /\ Finish(t)
    /\ UNCHANGED <<mergeUnchanged, now, nmerges>>

\* A requested fs.unlink of the manifest ends; its failure is ignored.
unlink ==
    /\ variant = "cloud" /\ unlinks > 0
    /\ unlinks' = unlinks - 1
    /\ fs' = [fs EXCEPT ![ListFile] = NoFile]
    /\ UNCHANGED <<mergeUnchanged, now, tasks, log, nmerges>>

\* fs.stat of the output ends and video_merged is broadcast.  Nothing
\* removes an output file, so the stat of a file just written succeeds.
mergeVideos_stat(t) ==
    /\ variant = "cloud" /\ At(t, "merge", "stat")
    /\ LET outputFile == outputPathOf(tasks[t].projectName) IN
       /\ Exists(basename(outputFile))
       /\ Send(MergedMsg(outputFile, Len(ReadFile(outputFile)),
                         Len(tasks[t].validBlocks), Null))
    /\ Finish(t)
    /\ UNCHANGED <<mergeUnchanged, fs, now, unlinks, nmerges>>

----------------------------------------------------------------------------
(* The merging side of the server alone: the output directory holds any   *)
(* of the finished segments a.mp4 and b.mp4; c.mp4 is never there.         *)

Segment(name) == [data |-> <<name>>, mtime |-> 0]

InitMerge ==
    /\ InitCommon
    /\ \E present \in SUBSET {"a.mp4", "b.mp4"} :
          fs = [f \in FileNames |-> IF f \in present THEN Segment(f) ELSE NoFile]

NextMerge ==
    \/ \E blocks \in BlockLists, projectName \in ProjectNames :
          VMS_mergeVideos(blocks, projectName)
    \/ \E t \in TaskIds : ffmpeg_read(t)
    \/ \E t \in TaskIds : VMS_mergeWithFFmpeg_resolve(t)
    \/ \E t \in TaskIds : VMS_mergeWithFFmpeg_reject(t)
    \/ \E t \in TaskIds : VMS_mergeVideosAlternative_resolve(t)
    \/ \E t \in TaskIds : VMS_mergeVideosAlternative_reject(t)
    \/ \E blocks \in BlockLists, projectName \in ProjectNames :
          mergeVideos(blocks, projectName)
    \/ \E t \in TaskIds : mergeVideos_copyFile(t)
    \/ \E t \in TaskIds : mergeVideos_writeFile(t)
    \/ \E t \in TaskIds : mergeVideos_close_resolve(t)
    \/ \E t \in TaskIds : mergeVideos_close_reject(t)
    \/ unlink
    \/ \E t \in TaskIds : mergeVideos_stat(t)

SpecMerge == InitMerge /\ [][NextMerge]_vars

\* The next step of the merge in slot t: its subprocess reads its input or
\* exits, or a file operation it awaits completes.
MergeStep(t) ==
    \/ ffmpeg_read(t)
    \/ VMS_mergeWithFFmpeg_resolve(t)
    \/ VMS_mergeWithFFmpeg_reject(t)
    \/ VMS_mergeVideosAlternative_resolve(t)
    \/ VMS_mergeVideosAlternative_reject(t)
    \/ mergeVideos_copyFile(t)
    \/ mergeVideos_writeFile(t)
    \/ mergeVideos_close_resolve(t)
    \/ mergeVideos_close_reject(t)
    \/ mergeVideos_stat(t)

\* Every subprocess exits and every file operation completes.
SubprocessesExit == \A t \in TaskIds : WF_vars(MergeStep(t))

SpecMergeFair == SpecMerge /\ SubprocessesExit

\* The whole server.
Init == InitMerge
Next == NextRec \/ NextMerge
Spec == Init /\ [][Next]_vars

\* The output directory shared by the engine, which writes the segments, and
\* the merges, which read them: the recording side together with the merges
\* of one block, which copy a file.
NextShared ==
    \/ NextRec
    \/ \E f \in SegSet : VMS_mergeVideos(<< <<f>> >>, "p")
    \/ \E t \in TaskIds : VMS_mergeVideosAlternative_resolve(t)
    \/ \E t \in TaskIds : VMS_mergeVideosAlternative_reject(t)
    \/ \E f \in SegSet : mergeVideos(<< <<f>> >>, "p")
    \/ \E t \in TaskIds : mergeVideos_copyFile(t)
    \/ \E t \in TaskIds : mergeVideos_stat(t)

SpecShared == InitRec /\ [][NextShared]_vars

\* The recording side together with merges of the two finished segments
\* a.mp4 and b.mp4, which run ffmpeg.
TwoSegments == << <<"a.mp4">>, <<"b.mp4">> >>
\* The number of merges asked for next to the recording commands.
MaxMergesDuring == 1

\* merge_videos for the two segments, in either program.
VMS_mergeVideos_during == nmerges < MaxMergesDuring /\ VMS_mergeVideos(TwoSegments, "p")
mergeVideos_during == nmerges < MaxMergesDuring /\ mergeVideos(TwoSegments, "p")

InitDuring ==
    /\ InitCommon
    /\ fs = [f \in FileNames |-> IF f \in {"a.mp4", "b.mp4"} THEN Segment(f) ELSE NoFile]

NextDuring ==
    \/ NextRec
    \/ VMS_mergeVideos_during
    \/ \E t \in TaskIds : ffmpeg_read(t)
    \/ \E t \in TaskIds : VMS_mergeWithFFmpeg_resolve(t)
    \/ \E t \in TaskIds : VMS_mergeWithFFmpeg_reject(t)
    \/ \E t \in TaskIds : VMS_mergeVideosAlternative_resolve(t)
    \/ \E t \in TaskIds : VMS_mergeVideosAlternative_reject(t)
    \/ mergeVideos_during
    \/ \E t \in TaskIds : mergeVideos_writeFile(t)
    \/ \E t \in TaskIds : mergeVideos_close_resolve(t)
    \/ \E t \in TaskIds : mergeVideos_close_reject(t)
    \/ unlink
    \/ \E t \in TaskIds : mergeVideos_stat(t)

SpecDuring == InitDuring /\ [][NextDuring]_vars

----------------------------------------------------------------------------
(* Claims about merging.                                                   *)

\* A merge_videos command is received.
MergeCmd(blocks, projectName) ==
    VMS_mergeVideos(blocks, projectName) \/ mergeVideos(blocks, projectName)

\* The valid-segment sequence the running program computes.
ValidSegments(blocks) ==
    IF variant = "local" THEN VMS_validBlocks(blocks) ELSE validBlocksOf(blocks)

\* An identifier that is not empty, does not carry the rejected marker and
\* is the name of a file present in the output directory.
Eligible(block) ==
    /\ block # <<>>
    /\ \A i \in DOMAIN block : block[i] # RejectedMarker
    /\ Text(block) \in DOMAIN fs
    /\ fs[Text(block)] # NoFile

\* C5: the valid-segment sequence of a merge is exactly the subsequence of
\* the identifiers that are non-empty, unmarked and name an existing file,
\* in their original order.
C5_InvalidSegmentFiltering ==
    [][ nmerges' # nmerges =>
          \A blocks \in BlockLists, projectName \in ProjectNames :
              MergeCmd(blocks, projectName) =>
                  ValidSegments(blocks) = SelectSeq(blocks, Eligible) ]_vars

Merging(t) == tasks[t].kind = "merge"
\* The file of the i-th valid segment of a merge.
SegmentFile(t, i) == path_join(outputPath, tasks[t].validBlocks[i])
SegmentFiles(t) == [i \in DOMAIN tasks[t].validBlocks |-> SegmentFile(t, i)]

\* C6: the manifest lines handed to the primary strategy, and the -i inputs
\* and stream labels handed to the fallback strategy, name the valid
\* segments position by position.
C6_OrderPreservation ==
    \A t \in TaskIds :
        /\ (Merging(t) /\ tasks[t].pc \in {"writeFile", "exec", "running"}) =>
              /\ Len(tasks[t].manifest) = Len(tasks[t].validBlocks)
              /\ \A i \in DOMAIN tasks[t].manifest :
                    tasks[t].manifest[i] = <<"file", SegmentFile(t, i)>>
        /\ (Merging(t) /\ tasks[t].pc = "alternative") =>
              /\ tasks[t].inputs = SegmentFiles(t)
              /\ Len(tasks[t].labels) = Len(tasks[t].validBlocks)
              /\ \A k \in DOMAIN tasks[t].labels :
                    tasks[t].inputs[tasks[t].labels[k] + 1] = SegmentFile(t, k)

\* The fallback strategy runs on b.mp4 followed by a.mp4, after the primary
\* strategy was handed the same two and failed.
C6_Witness ==
    \E t \in TaskIds :
        /\ Merging(t) /\ tasks[t].pc = "alternative"
        /\ tasks[t].validBlocks = << <<"b.mp4">>, <<"a.mp4">> >>
        /\ tasks[t].manifest = << <<"file", <<"videos", "b.mp4">> >>,
                                  <<"file", <<"videos", "a.mp4">> >> >>

\* C7: a merge of exactly one valid segment never starts the transcoding
\* subprocess, neither for the primary nor for the fallback strategy.
C7_SingleSegmentShortcut ==
    \A t \in TaskIds :
        (Merging(t) /\ Len(tasks[t].validBlocks) = 1) =>
            tasks[t].pc \notin {"writeFile", "exec", "running", "alternative"}

\* The subprocess of the primary strategy fails.
PrimaryFails(t) == VMS_mergeWithFFmpeg_reject(t) \/ mergeVideos_close_reject(t)

\* C8: when the primary strategy's subprocess fails, the fallback strategy
\* is started with the same valid segments; a result of the fallback is
\* labelled as such and a result of the primary strategy or of the copy is
\* not.
C8_FallbackEscalation ==
    [][ \A t \in TaskIds :
            /\ PrimaryFails(t) =>
                  /\ tasks'[t].kind = "merge" /\ tasks'[t].pc = "alternative"
                  /\ tasks'[t].validBlocks = tasks[t].validBlocks
                  /\ tasks'[t].inputs = SegmentFiles(t)
                  /\ log' = log
            /\ VMS_mergeVideosAlternative_resolve(t) =>
                  /\ log'[Len(log')].type = "video_merged"
                  /\ log'[Len(log')].method = "alternative"
            /\ (VMS_mergeWithFFmpeg_resolve(t) \/ mergeVideos_stat(t)) =>
                  /\ log'[Len(log')].type = "video_merged"
                  /\ log'[Len(log')].method # "alternative" ]_vars

\* text has the fragments of part, in order and adjacent.
ContainsText(text, part) ==
    \E i \in 0..(Len(text) - Len(part)) : SubSeq(text, i + 1, i + Len(part)) = part

\* The fallback strategy fails after the primary strategy's subprocess failed.
BothFail(t) ==
    /\ VMS_mergeVideosAlternative_reject(t)
    /\ tasks[t].error = <<E_FFmpegFailed, E_Exec>>

\* C9: when the primary and the fallback strategy both fail, the merge ends
\* with one error that contains the primary failure's text and the fallback
\* failure's text, and broadcasts no video_merged.
C9_BothFailuresReported ==
    [][ \A t \in TaskIds :
            BothFail(t) =>
                /\ Len(log') = Len(log) + 1
                /\ SubSeq(log', 1, Len(log)) = log
                /\ log'[Len(log')].type = "error"
                /\ ContainsText(log'[Len(log')].message, <<E_FFmpegFailed, E_Exec>>)
                /\ ContainsText(log'[Len(log')].message, <<E_AltFFmpegFailed, E_Exec>>)
                /\ tasks'[t] = NoTask ]_vars

\* A merge of two segments ended with the error of both strategies.
C9_Witness ==
    /\ log # <<>>
    /\ log[Len(log)].type = "error"
    /\ Contains(log[Len(log)].message, P_MergeFailed)
    /\ Contains(log[Len(log)].message, E_FFmpegFailed)
    /\ \A i \in DOMAIN log : log[i].type # "video_merged"

NoValidSegments(msg) ==
    /\ msg.type = "error"
    /\ Contains(msg.message, E_NoValidFiles) \/ Contains(msg.message, E_NetValidnykh)

\* C10: a merge whose valid-segment sequence is empty fails with
\* NoValidSegments, writes no file, starts no subprocess and broadcasts no
\* video_merged.
C10_NoValidSegments ==
    [][ nmerges' # nmerges =>
          \A blocks \in BlockLists, projectName \in ProjectNames :
              (ValidSegments(blocks) = <<>> /\ MergeCmd(blocks, projectName)) =>
                  /\ Len(log') = Len(log) + 1
                  /\ SubSeq(log', 1, Len(log)) = log
                  /\ NoValidSegments(log'[Len(log')])
                  /\ fs' = fs
                  /\ tasks' = tasks
                  /\ unlinks' = unlinks ]_vars

\* A merge was refused for want of valid segments; the output directory
\* holds what it held before and no handler is in flight.
C10_Witness ==
    /\ nmerges = 1
    /\ log # <<>> /\ NoValidSegments(log[Len(log)])
    /\ \A t \in TaskIds : Free(t)
    /\ Exists("a.mp4")
    /\ \A f \in DOMAIN fs \ SegSet : ~Exists(f)

----------------------------------------------------------------------------
(* Further claims about the recording session.                             *)

\* The program holds a session: a recording was confirmed (server.js) or
\* accepted (part_000) and its end has not been confirmed.
SessionFlag == IF variant = "local" THEN isRecording ELSE currentSession # NoSession

\* The session state is Recording: a session is held and no stop has been
\* asked for.
Recording == SessionFlag /\ NoStopInFlight

NoActiveSession(msg) == msg.type = "error" /\ Contains(msg.message, E_NoSession)

\* C14: a stop_recording handled while connected and while the session is
\* not Recording fails with NoActiveSession and asks nothing of the engine:
\* no handler is left waiting for a reply.
C14_StopWithoutSession ==
    [][ (StopCmd /\ obsConnected /\ ~Recording) =>
            /\ Len(log') = Len(log) + 1
            /\ NoActiveSession(log'[Len(log')])
            /\ tasks' = tasks ]_vars

\* The engine's notification that a recording has begun is handled.
StartedNotification ==
    /\ obsQueue # <<>>
    /\ Head(obsQueue).outputActive
    /\ obsQueue' = Tail(obsQueue)

\* C16: a recording_started event is broadcast only by the handling of the
\* engine's notification that a recording has begun, never by the handler of
\* the start command, and the session is held from that notification only.
C16_StartedOnNotification ==
    [][ /\ (\E i \in (Len(log) + 1)..Len(log') : log'[i].type = "recording_started")
              => StartedNotification
        /\ (~SessionFlag /\ SessionFlag') => StartedNotification ]_vars

\* The recording events broadcast so far, and the last of them.
RecordingEvents ==
    {i \in DOMAIN log : log[i].type \in {"recording_started", "recording_stopped"}}
LastRecordingEvent ==
    log[CHOOSE i \in RecordingEvents : \A j \in RecordingEvents : j <= i]

\* The file name and the path of the last recording, as the program still
\* knows them.  server.js keeps them in two fields; part_000 has no field
\* but the session, which is null once the recording has stopped.
LastKnownFilename == IF variant = "local" THEN currentRecordingFile ELSE Null
LastKnownFullPath == IF variant = "local" THEN lastRecordingPath ELSE <<>>

\* C17: from the confirmation that a recording has stopped until the next
\* recording start is announced, no session is held and the last known file
\* name and path are those of the recording that stopped.
C17_LastFileRetained ==
    (RecordingEvents # {} /\ LastRecordingEvent.type = "recording_stopped") =>
        /\ ~SessionFlag
        /\ LastKnownFilename = LastRecordingEvent.filename
        /\ LastKnownFullPath = LastRecordingEvent.fullPath

\* A handler of the given kind ends in this step with an error message; no
\* other handler was running when its command arrived and no command has
\* arrived since.
Fails(t, kind) ==
    /\ tasks[t].kind = kind /\ tasks'[t].kind = "none"
    /\ tasks[t].at = ncmds
    /\ Len(log') = Len(log) + 1
    /\ log'[Len(log')].type = "error"

\* C22: when the backend rejects a requested start, or a requested stop, the
\* session is left without partial state: a failed start creates no session
\* and leaves the recorded blockIndex as it was when the command arrived; a
\* failed stop leaves no stop in progress.
C22_FailureRollback ==
    [][ \A t \in TaskIds :
          /\ Fails(t, "start") =>
                /\ SessionFlag' = SessionFlag
                /\ RecordedBlockIndex' = tasks[t].before
          /\ Fails(t, "stop") =>
                \A u \in TaskIds : tasks'[u].kind # "stop" ]_vars

\* recording_stopped is broadcast in this step.
StoppedBroadcast ==
    /\ Len(log') = Len(log) + 1
    /\ log'[Len(log')].type = "recording_stopped"

\* The output path the engine's notification of the stop carried, for the
\* recording_stopped broadcast in this step.
EventPath ==
    IF variant = "local" THEN Head(obsQueue).outputPath
    ELSE LET t == CHOOSE t \in TaskIds : At(t, "stop", "stat") /\ tasks'[t] # tasks[t]
         IN tasks[t].event.outputPath

\* C25: the engine's notification of a stop names the output path, and the
\* filename and fullPath of recording_stopped are those of that path, not of
\* whichever file is the newest in the output directory.
C25_EventPathPreferred ==
    [][ StoppedBroadcast =>
            /\ log'[Len(log')].fullPath = EventPath
            /\ log'[Len(log')].filename = basename(EventPath) ]_vars

\* The stop handler in slot t ends in this step.
StopEnds(t) == tasks[t].kind = "stop" /\ tasks'[t].kind = "none"

\* C27: in the program whose stop handler waits before it reports, a start
\* accepted during the wait leaves both sessions whole: recording_stopped
\* carries the blockIndex of the session there was when the stop command
\* arrived, and a session created since is still there when the stop handler
\* has ended.
C27_StartDuringStopWait ==
    [][ variant = "cloud" =>
          \A t \in TaskIds :
              StopEnds(t) =>
                  /\ StoppedBroadcast =>
                        log'[Len(log')].blockIndex = tasks[t].held.blockIndex
                  /\ (currentSession # NoSession /\ currentSession # tasks[t].held) =>
                        currentSession' = currentSession ]_vars

\* recording_started is broadcast in this step.
StartedBroadcast ==
    /\ Len(log') = Len(log) + 1
    /\ log'[Len(log')].type = "recording_started"

\* The block of the recording that the broadcast of this step is about: the
\* blockIndex of the start command that caused it, -1 if a test did.
EventBlock ==
    IF variant = "local" THEN Head(obsQueue).block
    ELSE IF StartedBroadcast THEN obsBlock'
    ELSE LET t == CHOOSE t \in TaskIds : At(t, "stop", "stat") /\ tasks'[t] # tasks[t]
         IN tasks[t].event.block

\* C29: recording_started and recording_stopped carry the blockIndex of the
\* start command that caused the recording they are about, whatever starts
\* were rejected, arrived while recording, or were tests in the meantime.
\* Nothing is asked of the broadcasts about a test's own recording, which has
\* no block.
C29_BlockIndexProvenance ==
    [][ ((StartedBroadcast \/ StoppedBroadcast) /\ EventBlock # -1) =>
            log'[Len(log')].blockIndex = EventBlock ]_vars

\* The engine is recording because a start command was accepted.
EngineRecording == obsActive /\ obsBlock # -1

\* C31: while the engine records what an accepted start began, the program
\* keeps the session: no step of a stop handler, at the arrival of the command
\* or at its end, with or without a connection, drops a session and leaves the
\* engine recording, and a stop_recording that arrives with the connection up
\* and no other stop under way is not refused for want of a session.
C31_SessionKeptWhileRecording ==
    [][ /\ ((StopCmd \/ \E t \in TaskIds : StopEnds(t))
                /\ EngineRecording /\ EngineRecording' /\ SessionFlag) => SessionFlag'
        /\ (StopCmd /\ EngineRecording /\ obsConnected /\ NoStopInFlight) =>
              ~(/\ Len(log') = Len(log) + 1
                /\ log'[Len(log')].type = "error"
                /\ Contains(log'[Len(log')].message, E_NoSession)) ]_vars

\* The delayed stop of a test recording is answered in this step.
DelayedStopEnds(t) == At(t, "test", "StopRecord") /\ tasks'[t] # tasks[t]

\* C24: after a test_recording whose start request the engine acknowledged
\* (the timer is set), the stop request is sent, eventually and whatever
\* happens in between, and once only: its answer ends the test, and, good or
\* bad, no message is sent to any client.
C24_TestRecordingStops ==
    /\ \A t \in TaskIds : At(t, "test", "setTimeout") ~> At(t, "test", "StopRecord")
    /\ [][ \A t \in TaskIds :
              /\ (At(t, "test", "setTimeout") /\ tasks'[t] # tasks[t])
                    => tasks'[t] = [tasks[t] EXCEPT !.pc = "StopRecord"]
              /\ DelayedStopEnds(t) => (tasks'[t] = NoTask /\ log' = log) ]_vars

\* The delayed stop has been asked for after the connection was lost and a
\* start_recording arrived: it is going to fail.
C24_Witness ==
    \E t \in TaskIds :
        /\ At(t, "test", "StopRecord")
        /\ ~obsConnected /\ obsActive
        /\ ncmds >= 2

----------------------------------------------------------------------------
(* Claims about the clients.                                               *)

\* A client attaches.
Attach == VMS_connection \/ connection

\* C11: a listener that attaches receives, in the step that attaches it, an
\* obs_status message that carries the current connection flag.
C11_BroadcastCatchUp ==
    [][ Attach =>
          /\ Len(log') = Len(log) + 1
          /\ log'[Len(log')].type = "obs_status"
          /\ log'[Len(log')].connected = obsConnected
          /\ log'[Len(log')].sent[NewWs] = 1 ]_vars

\* C13: a broadcast is delivered exactly once to every listener whose channel
\* is open at that moment and to no listener whose channel is closed or has
\* had an error; what was sent is never changed afterwards, so that a skipped
\* event is not delivered later.
C13_BroadcastDelivery ==
    [][ /\ Len(log') >= Len(log)
        /\ SubSeq(log', 1, Len(log)) = log
        /\ \A i \in (Len(log) + 1)..Len(log') :
              log'[i].to = "all" =>
                  \A c \in Ws :
                      log'[i].sent[c] = IF readyState[c] = "OPEN" THEN 1 ELSE 0 ]_vars

\* A broadcast reached the second client and not the first, whose channel
\* had been closed or had had an error by then.
C13_Witness ==
    \E i \in DOMAIN log :
        /\ log[i].to = "all"
        /\ log[i].sent[1] = 0
        /\ log[i].sent[2] = 1

\* C15: no input terminates the process: no exception escapes a handler.
C15_NoUncaughtFailure == ~uncaught

----------------------------------------------------------------------------
(* Further claims about merging.                                           *)

\* The merges in flight: their handlers have begun and not yet ended.
MergesInFlight == {t \in TaskIds : Merging(t)}

\* C12: at most one merge is executing at any time.
C12_OneMergeAtATime == Cardinality(MergesInFlight) <= 1

\* A merge is at its primary strategy: the manifest is being written or
\* ffmpeg is running on it.
AtPrimary(t) == Merging(t) /\ tasks[t].pc \in {"writeFile", "exec", "running"}

\* C18: once no merge is at its primary strategy, whether its subprocess
\* ended well or not, the manifest filelist.txt is not in the output directory.
C18_ManifestRemoved ==
    (\A t \in TaskIds : ~AtPrimary(t)) => ~Exists(ListFile)

\* The file the engine is writing: a recording has begun and has not ended.
BeingRecorded(f) == obsActive /\ f = obsPath

\* C19: the file of a recording that the engine has not ended is never among
\* the valid segments of a merge, although it is in the output directory.
C19_UnfinishedNotMerged ==
    [][ nmerges' # nmerges =>
          \A blocks \in BlockLists, projectName \in ProjectNames :
              MergeCmd(blocks, projectName) =>
                  \A i \in DOMAIN ValidSegments(blocks) :
                      ~BeingRecorded(Text(ValidSegments(blocks)[i])) ]_vars

\* A merge fails in this step: its primary strategy's subprocess fails, or
\* the merge ends with an error.
MergeFails ==
    \/ \E t \in TaskIds : PrimaryFails(t)
    \/ Len(log') = Len(log) + 1 /\ log'[Len(log')].type = "error"

\* C20: a failing merge leaves every segment file of the output directory
\* as it was: still there, with the same content.
C20_SegmentsUntouched ==
    [][ MergeFails =>
            \A f \in SegSet : Exists(f) => fs'[f].data = fs[f].data ]_vars

\* The fallback of a merge takes a step.
AtFallback(t) == At(t, "merge", "alternative") /\ tasks'[t] # tasks[t]

\* C23: the fallback writes to an output path other than the primary's: no
\* step of the fallback writes, replaces or removes the file at the primary
\* output path of its merge.
C23_FallbackOutputIsolation ==
    [][ \A t \in TaskIds :
          AtFallback(t) =>
              LET primary == basename(VMS_outputFile(tasks[t].projectName)) IN
              /\ VMS_altOutputFile(tasks[t].projectName)
                    # VMS_outputFile(tasks[t].projectName)
              /\ fs'[primary] = fs[primary] ]_vars

\* The fallback has written its output next to the unfinished one the primary
\* left behind.
C23_Witness ==
    /\ variant = "local"
    /\ log # <<>> /\ log[Len(log)].type = "video_merged"
    /\ log[Len(log)].method = "alternative"
    /\ \E projectName \in ProjectNames :
          /\ log[Len(log)].outputFile = VMS_altOutputFile(projectName)
          /\ Exists(basename(VMS_outputFile(projectName)))
          /\ fs[basename(VMS_outputFile(projectName))].data = <<>>
          /\ Exists(basename(VMS_altOutputFile(projectName)))

\* The primary subprocess of a merge is running on the manifest.
PrimaryRunning(t) == Merging(t) /\ tasks[t].pc \in {"exec", "running"}

\* C28: the manifest the primary subprocess of a merge reads lists that
\* merge's valid segments in order, and it is in the output directory, with
\* those lines, for as long as the subprocess runs: no other merge writes
\* over it or removes it.
C28_ManifestIsolation ==
    \A t \in TaskIds :
        /\ PrimaryRunning(t) =>
              /\ Exists(ListFile)
              /\ fs[ListFile].data = tasks[t].manifest
        /\ At(t, "merge", "running") => tasks[t].read = tasks[t].manifest

\* The messages that end a merge: video_merged or an error.
Outcomes(type) == {i \in DOMAIN log : log[i].type = type}

\* C30: every merge_videos ends, given that its subprocesses exit, and ends
\* with one outcome, a video_merged or an error: the merges received are the
\* merges in flight, which have no outcome yet, and as many others as there
\* are outcomes.
C30_OneOutcomePerMerge ==
    /\ [](Cardinality(Outcomes("video_merged")) + Cardinality(Outcomes("error"))
            + Cardinality(MergesInFlight) = nmerges)
    /\ \A t \in TaskIds : Merging(t) ~> ~Merging(t)

\* Two merges have ended, one with video_merged and one with an error.
C30_Witness ==
    /\ nmerges = 2 /\ MergesInFlight = {}
    /\ Cardinality(Outcomes("video_merged")) = 1
    /\ Cardinality(Outcomes("error")) = 1
    /\ \E i \in Outcomes("error") : Contains(log[i].message, E_Exec)

\* The ffmpeg subprocess of a merge is running.
SubprocessRunning(t) == Merging(t) /\ tasks[t].pc \in {"exec", "running", "alternative"}

\* The next step of the recording handler in slot t.
RecordingStep(t) ==
    \/ VMS_startRecording_SetRecordDirectory(t)
    \/ VMS_startRecording_StartRecord(t)
    \/ VMS_stopRecording_StopRecord(t)
    \/ startRecording_GetRecordStatus(t)
    \/ startRecording_SetRecordDirectory(t)
    \/ startRecording_StartRecord(t)
    \/ stopRecording_StopRecord(t)
    \/ stopRecording_setTimeout(t)
    \/ stopRecording_readdir(t)
    \/ stopRecording_stat(t)

\* C26: while the subprocess of a merge runs the event loop is free: a start
\* or stop command that arrives is taken up, a handler that waits for the
\* engine's answer goes on when it comes, and a notification of the engine is
\* handled, all before the merge completes.
C26_MergeDoesNotBlock ==
    (\E m \in TaskIds : SubprocessRunning(m)) =>
        /\ (ncmds < MaxCmds /\ \E t \in TaskIds : Free(t)) =>
                /\ ENABLED (\E b \in BlockIndexes : StartCmd(b))
                /\ ENABLED StopCmd
        /\ \A t \in TaskIds :
                tasks[t].kind \in {"start", "stop"} => ENABLED RecordingStep(t)
        /\ (variant = "local" /\ obsQueue # <<>>) => ENABLED VMS_RecordStateChanged

\* A session began after the manifest of the one merge was written, and the
\* subprocess of that merge is still running.
C26_Witness ==
    /\ nmerges = 1 /\ Exists(ListFile)
    /\ \E m \in TaskIds : SubprocessRunning(m)
    /\ SessionFlag /\ obsActive
    /\ fs[obsPath].mtime > fs[ListFile].mtime

====
